---- MODULE Spec2Model ----
(***************************************************************************)
(* Inventory / point-of-sale ledger of icalstore (src/app.py,               *)
(* src/models.py).                                                          *)
(*                                                                         *)
(* The persisted state is the four tables products, stock_in, sales and     *)
(* sale_items; the session cart is the per-session SKU -> qty mapping.      *)
(* Every request handler is one action that runs to completion (one        *)
(* request at a time) and leaves in `resp` the request it served and what   *)
(* the caller saw.  The txn_ actions take a stock-in or manual sale one     *)
(* statement at a time, for two requests served at once; `txn` holds the    *)
(* requests in flight.                                                      *)
(*                                                                         *)
(* Conventions                                                              *)
(*  - text (SKU, product name, search text) is a sequence of characters;    *)
(*    request parameters are taken after the handler's .strip();            *)
(*  - money in a column is an integer number of hundredths, the scale of   *)
(*    the Numeric(12, 2) / Numeric(14, 2) columns; the Decimal a manual     *)
(*    sale computes with is a number of thousandths, so that a price typed  *)
(*    with three decimal places is rounded where it is stored;              *)
(*  - a raw form field is [k |-> "empty"], [k |-> "bad"] (text that the     *)
(*    parser rejects) or [k |-> "num", v |-> n];                            *)
(*  - Python None / SQL NULL is <<>>, a present value v is <<v>>;           *)
(*  - a timestamp is a number of clock ticks, DayLen ticks make a day, and  *)
(*    a calendar date is a day number;                                      *)
(*  - columns that no handler of the ledger core reads (unit, min_level,    *)
(*    notes, Sale.ref) are left out;                                        *)
(*  - every handler takes the sets its request parameters are drawn from   *)
(*    as an argument `In`, so that each specification can explore the       *)
(*    handlers over the inputs its properties are about.                    *)
(***************************************************************************)
EXTENDS Integers, Sequences, FiniteSets, TLC

VARIABLES products, stock_in, sales, sale_items, cart, now, resp, txn

vars == <<products, stock_in, sales, sale_items, cart, now, resp, txn>>

(* ------------------------------ bounds --------------------------------- *)
MaxQty == 2
MaxMoney == 2
MaxStockIn == 2
MaxSales == 1
MaxLedgerSales == 2
MaxRaceSales == 2
MaxStatSales == 3
MaxCart == 2
MaxTime == 2
MaxDay == 1
DayLen == 2

(* ------------------------------ inputs --------------------------------- *)
SkuA == <<"a">>
SkuB == <<"B">>
SkuNone == <<"z">>

Empty == [k |-> "empty"]
Bad == [k |-> "bad"]
Num(n) == [k |-> "num", v |-> n]

(* a decimal text with three decimal places: n thousandths *)
Fine(n) == [k |-> "fine", v |-> n]

None == <<>>
Some(v) == <<v>>

(* ------------------------------ helpers -------------------------------- *)
Range(s) == {s[i] : i \in DOMAIN s}

Perms(S) == {s \in [1..Cardinality(S) -> S] : Range(s) = S}

(* int(form.get(name) or default) / Decimal(form.get(name) or default):    *)
(* the default replaces an empty field, None stands for the parser's       *)
(* exception.                                                              *)
ParseOr(raw, default) ==
    IF raw.k = "empty" THEN Some(default)
    ELSE IF raw.k = "bad" THEN None
    ELSE Some(raw.v)

(* Decimal(raw) if raw != "" else None; the outer None is the exception.   *)
ParseOptional(raw) ==
    IF raw.k = "empty" THEN Some(None)
    ELSE IF raw.k = "bad" THEN None
    ELSE Some(Some(raw.v))

(* ----------------------------- ORM objects ----------------------------- *)
(* The mapped columns of Product.  An attribute outside this set lives     *)
(* only on the Python instance of the request that assigned it.            *)
ProductColumns == {"id", "name", "stock_qty", "retail_price", "reseller_price"}

(* db.session.commit(): the mapped columns of the instance are written.    *)
Persist(inst) == [c \in ProductColumns |-> inst[c]]

(* instance.attr = value *)
SetAttr(inst, attr, value) == (attr :> value) @@ inst

(* instance.attr: None stands for AttributeError.                          *)
GetAttr(inst, attr) == IF attr \in DOMAIN inst THEN Some(inst[attr]) ELSE None

(* Product.query.filter_by(sku=sku).first(), on the given products table   *)
FindProductIn(prods, sku) == IF sku \in DOMAIN prods THEN Some(prods[sku]) ELSE None

FindProduct(sku) == FindProductIn(products, sku)

(* ------------------------------- Init ---------------------------------- *)
Init ==
    /\ products = <<>>
    /\ stock_in = <<>>
    /\ sales = <<>>
    /\ sale_items = <<>>
    /\ cart = <<>>
    /\ now = 0
    /\ resp = [op |-> "none", outcome |-> "ok"]
    /\ txn = <<>>

(* datetime.utcnow() moves on between requests. *)
Tick ==
    /\ now < MaxTime
    /\ now' = now + 1
    /\ UNCHANGED <<products, stock_in, sales, sale_items, cart, resp, txn>>

(* --------------------------- POST /products/upsert --------------------- *)
ProductUpsertResult(sku, name, cost_raw, retail_raw, reseller_raw) ==
    LET cost_price == ParseOr(cost_raw, 0)
        retail_price == ParseOr(retail_raw, 0)
        reseller_price == ParseOr(reseller_raw, 0)
        found == FindProduct(sku)
        p0 == IF found = None
              THEN [id |-> Cardinality(DOMAIN products) + 1, name |-> name, stock_qty |-> 0,
                    retail_price |-> 0, reseller_price |-> 0]
              ELSE found[1]
        p1 == [p0 EXCEPT !.name = name]
        p2 == SetAttr(p1, "cost_price", cost_price[1])
        p3 == [p2 EXCEPT !.retail_price = retail_price[1],
                         !.reseller_price = reseller_price[1]]
    IN  IF cost_price = None \/ retail_price = None \/ reseller_price = None
        THEN [outcome |-> "InvalidOperation", products |-> products]
        ELSE IF sku = <<>> \/ name = <<>>
        THEN [outcome |-> "InvalidInput", products |-> products]
        ELSE [outcome |-> "ok", products |-> (sku :> Persist(p3)) @@ products]

product_upsert_step(sku, name, cost_raw, retail_raw, reseller_raw) ==
    LET r == ProductUpsertResult(sku, name, cost_raw, retail_raw, reseller_raw)
    IN  /\ products' = r.products
        /\ resp' = [op |-> "product_upsert", outcome |-> r.outcome]
        /\ UNCHANGED <<stock_in, sales, sale_items, cart, now, txn>>

product_upsert(In) ==
    \E a \in In.upsert : product_upsert_step(a[1], a[2], a[3], a[4], a[5])

(* ----------------------------- POST /stockin/add ----------------------- *)
(* db.session.add(si): one more row, the rows already there untouched.     *)
AddStockIn_Replace(tbl, si) == SelectSeq(tbl, LAMBDA r : r.product_id # si.product_id) \o <<si>>

AddStockIn(tbl, si) == Append(tbl, si)

(* if qty <= 0 *)
InvalidQty_NegativeOnly(qty) == qty < 0

InvalidQty(qty) == qty <= 0

(* p.stock_qty += qty *)
StockAfterIn_Overwrite(stock, qty) == qty

StockAfterIn(stock, qty) == stock + qty

(* if new_price is not None: p.price = new_price *)
ApplyOverride_Reset(old, new) == IF new # None THEN new[1] ELSE 0

ApplyOverride(old, new) == IF new # None THEN new[1] ELSE old

StockInResult(sku, qty_raw, cost_raw, new_retail, new_reseller) ==
    LET qty == ParseOr(qty_raw, 0)
        unchanged(o) == [outcome |-> o, products |-> products, stock_in |-> stock_in]
    IN  IF qty = None THEN unchanged("ValueError")
        ELSE IF InvalidQty(qty[1]) THEN unchanged("InvalidInput")
        ELSE IF FindProduct(sku) = None THEN unchanged("NotFound")
        ELSE
        LET p == FindProduct(sku)[1]
            stored == GetAttr(p, "cost_price")
            cost_per_unit == IF cost_raw.k = "empty" THEN stored ELSE ParseOr(cost_raw, 0)
            new_retail_price == ParseOptional(new_retail)
            new_reseller_price == ParseOptional(new_reseller)
        IN  IF cost_raw.k = "empty" /\ stored = None THEN unchanged("AttributeError")
            ELSE IF cost_per_unit = None THEN unchanged("InvalidOperation")
            ELSE IF new_retail_price = None \/ new_reseller_price = None
            THEN unchanged("InvalidOperation")
            ELSE
            LET si == [id |-> Len(stock_in) + 1, product_id |-> p.id, qty |-> qty[1],
                       cost_per_unit |-> cost_per_unit[1],
                       new_retail_price |-> new_retail_price[1],
                       new_reseller_price |-> new_reseller_price[1],
                       created_at |-> now]
                p1 == [p EXCEPT !.stock_qty = StockAfterIn(@, qty[1])]
                p2 == SetAttr(p1, "cost_price", cost_per_unit[1])
                p3 == [p2 EXCEPT !.retail_price = ApplyOverride(@, new_retail_price[1])]
                p4 == [p3 EXCEPT !.reseller_price = ApplyOverride(@, new_reseller_price[1])]
            IN  [outcome |-> "ok",
                 products |-> [products EXCEPT ![sku] = Persist(p4)],
                 stock_in |-> AddStockIn(stock_in, si)]

stockin_add_step(sku, qty_raw, cost_raw, new_retail, new_reseller) ==
    LET r == StockInResult(sku, qty_raw, cost_raw, new_retail, new_reseller)
    IN  /\ products' = r.products
        /\ stock_in' = r.stock_in
        /\ resp' = [op |-> "stockin_add", outcome |-> r.outcome]
        /\ UNCHANGED <<sales, sale_items, cart, now, txn>>

stockin_add(In) ==
    \E a \in In.stockin :
        /\ Len(StockInResult(a[1], a[2], a[3], a[4], a[5]).stock_in) <= In.max_stock_in
        /\ stockin_add_step(a[1], a[2], a[3], a[4], a[5])

(* ---------------------------- POST /store/cart/add --------------------- *)
(* if qty <= 0: qty = 1 *)
CartQty_Raw(qty) == qty

CartQty(qty) == IF qty <= 0 THEN 1 ELSE qty

CartAddResult(sku, qty_raw) ==
    LET parsed == ParseOr(qty_raw, 1)
        qty == CartQty(parsed[1])
        old == IF sku \in DOMAIN cart THEN cart[sku] ELSE 0
    IN  IF parsed = None THEN [outcome |-> "ValueError", cart |-> cart]
        ELSE IF FindProduct(sku) = None THEN [outcome |-> "NotFound", cart |-> cart]
        ELSE [outcome |-> "ok", cart |-> (sku :> (old + qty)) @@ cart]

store_cart_add_step(sku, qty_raw) ==
    LET r == CartAddResult(sku, qty_raw)
    IN  /\ \A k \in DOMAIN r.cart : r.cart[k] <= MaxCart
        /\ cart' = r.cart
        /\ resp' = [op |-> "store_cart_add", outcome |-> r.outcome]
        /\ UNCHANGED <<products, stock_in, sales, sale_items, now, txn>>

store_cart_add(In) ==
    \E a \in In.cart_add : store_cart_add_step(a[1], a[2])

(* --------------------------- POST /store/cart/clear -------------------- *)
store_cart_clear ==
    /\ cart' = <<>>
    /\ resp' = [op |-> "store_cart_clear", outcome |-> "ok"]
    /\ UNCHANGED <<products, stock_in, sales, sale_items, now, txn>>

(* ---------------------------- POST /store/checkout --------------------- *)
(* if p.stock_qty < qty *)
LineInsufficient(p, qty) == p.stock_qty < qty

(* db.session.rollback(): the flushed Sale, the SaleItems and the stock     *)
(* decrements of the lines already processed are discarded.                *)
Rollback_Partial(prods, items) == [products |-> prods, items |-> items]

Rollback(prods, items) == [products |-> products, items |-> sale_items]

(* price = Decimal(p.retail_price) *)
LinePrice_Reseller(p) == p.reseller_price

LinePrice(p) == p.retail_price

(* The loop over cart.items(), taken in the iteration order `order`.       *)
RECURSIVE CheckoutLines(_, _, _, _, _)
CheckoutLines(order, prods, items, total, sale_id) ==
    IF order = <<>>
    THEN [outcome |-> "ok", products |-> prods, items |-> items, total |-> total]
    ELSE
    LET sku == Head(order)
        qty == cart[sku]
        found == FindProductIn(prods, sku)
    IN  IF found = None THEN CheckoutLines(Tail(order), prods, items, total, sale_id)
        ELSE IF qty <= 0 THEN CheckoutLines(Tail(order), prods, items, total, sale_id)
        ELSE IF LineInsufficient(found[1], qty)
        THEN [outcome |-> "InsufficientStock", products |-> Rollback(prods, items).products,
              items |-> Rollback(prods, items).items, total |-> 0]
        ELSE
        LET p == found[1]
            price == LinePrice(p)
            si == [id |-> Len(items) + 1, sale_id |-> sale_id, product_id |-> p.id,
                   qty |-> qty, price |-> price]
        IN  CheckoutLines(Tail(order),
                          [prods EXCEPT ![sku] = [p EXCEPT !.stock_qty = @ - qty]],
                          Append(items, si), total + price * qty, sale_id)

(* the insufficient-stock branch returns without assigning session["cart"] *)
CartAfterFailure_Cleared(c) == <<>>

CartAfterFailure(c) == c

CheckoutResult(order) ==
    LET unchanged(o) == [outcome |-> o, products |-> products, sales |-> sales,
                         sale_items |-> sale_items, cart |-> cart]
    IN  IF DOMAIN cart = {} THEN unchanged("EmptyCart")
        ELSE
        LET sale == [id |-> Len(sales) + 1, channel |-> "store", total_amount |-> 0,
                     created_at |-> now]
            r == CheckoutLines(order, products, sale_items, 0, sale.id)
        IN  IF r.outcome # "ok"
            THEN [outcome |-> r.outcome, products |-> r.products, sales |-> sales,
                  sale_items |-> r.items, cart |-> CartAfterFailure(cart)]
            ELSE [outcome |-> "ok", products |-> r.products,
                  sales |-> Append(sales, [sale EXCEPT !.total_amount = r.total]),
                  sale_items |-> r.items, cart |-> <<>>]

store_checkout_post_step(order) ==
    LET r == CheckoutResult(order)
    IN  /\ products' = r.products
        /\ sales' = r.sales
        /\ sale_items' = r.sale_items
        /\ cart' = r.cart
        /\ resp' = [op |-> "store_checkout_post", outcome |-> r.outcome]
        /\ UNCHANGED <<stock_in, now, txn>>

store_checkout_post(In) ==
    \E order \in Perms(DOMAIN cart) :
        /\ Len(CheckoutResult(order).sales) <= In.max_sales
        /\ store_checkout_post_step(order)

(* ----------------------------- POST /sales/manual ---------------------- *)
(* if p.stock_qty < qty *)
InsufficientStock_Never(p, qty) == FALSE

InsufficientStock_OffByOne(p, qty) == p.stock_qty + 1 < qty

InsufficientStock(p, qty) == p.stock_qty < qty

(* A Decimal held by the handler is a number of thousandths; a Numeric     *)
(* column holds hundredths.                                                *)
Scale == 10

(* Decimal(column value) *)
ToDecimal(stored) == stored * Scale

(* Decimal(text): exact, whatever the number of decimal places; None is    *)
(* decimal.InvalidOperation                                                *)
ParseDecimal(raw) ==
    IF raw.k = "bad" THEN None
    ELSE IF raw.k = "fine" THEN Some(raw.v)
    ELSE Some(raw.v * Scale)

(* a Decimal written to a Numeric(_, 2) column is rounded to two decimal   *)
(* places, a half away from zero (the values here are not negative)        *)
StoreNumeric(dec) == (dec + Scale \div 2) \div Scale

(* price = Decimal(p.retail_price) if price_raw == "" else Decimal(price_raw) *)
ManualPrice_AlwaysRetail(p, price_raw) ==
    IF price_raw.k = "bad" THEN None ELSE Some(ToDecimal(p.retail_price))

ManualPrice(p, price_raw) ==
    IF price_raw.k = "empty" THEN Some(ToDecimal(p.retail_price)) ELSE ParseDecimal(price_raw)

ManualSaleResult(sku, qty_raw, price_raw) ==
    LET qty == ParseOr(qty_raw, 0)
        unchanged(o) == [outcome |-> o, products |-> products, sales |-> sales,
                         sale_items |-> sale_items]
    IN  IF qty = None THEN unchanged("ValueError")
        ELSE IF qty[1] <= 0 THEN unchanged("InvalidInput")
        ELSE IF FindProduct(sku) = None THEN unchanged("NotFound")
        ELSE
        LET p == FindProduct(sku)[1]
            price == ManualPrice(p, price_raw)
        IN  IF InsufficientStock(p, qty[1]) THEN unchanged("InsufficientStock")
            ELSE IF price = None THEN unchanged("InvalidOperation")
            ELSE
            LET sale == [id |-> Len(sales) + 1, channel |-> "manual", total_amount |-> 0,
                         created_at |-> now]
                item == [id |-> Len(sale_items) + 1, sale_id |-> sale.id,
                         product_id |-> p.id, qty |-> qty[1],
                         price |-> StoreNumeric(price[1])]
                total == price[1] * qty[1]
            IN  [outcome |-> "ok",
                 products |-> [products EXCEPT ![sku] = [p EXCEPT !.stock_qty = @ - qty[1]]],
                 sales |-> Append(sales, [sale EXCEPT !.total_amount = StoreNumeric(total)]),
                 sale_items |-> Append(sale_items, item)]

manual_sale_step(sku, qty_raw, price_raw) ==
    LET r == ManualSaleResult(sku, qty_raw, price_raw)
    IN  /\ products' = r.products
        /\ sales' = r.sales
        /\ sale_items' = r.sale_items
        /\ resp' = [op |-> "manual_sale", outcome |-> r.outcome]
        /\ UNCHANGED <<stock_in, cart, now, txn>>

manual_sale(In) ==
    \E a \in In.manual :
        /\ Len(ManualSaleResult(a[1], a[2], a[3]).sales) <= In.max_sales
        /\ manual_sale_step(a[1], a[2], a[3])

(* -------------------- two requests served at the same time ------------- *)
(* A stock-in or manual sale served by a worker of its own, with a session *)
(* and a database transaction of its own, taken one statement at a time:   *)
(* the SELECT of the product, the test of the loaded stock, the change of  *)
(* the loaded instance, and the commit, whose flush writes the instance's  *)
(* changed column as UPDATE products SET stock_qty = <value held by the    *)
(* instance>.  Nothing in the handlers locks the row (no with_for_update,  *)
(* no version column), and the database's default isolation neither blocks *)
(* the two SELECTs nor refuses the second UPDATE.  txn holds the requests  *)
(* in flight.                                                              *)
Workers == {1, 2}

InFlight(op) == Cardinality({w \in DOMAIN txn : txn[w].op = op})

(* p = Product.query.filter_by(sku=sku).first() *)
txn_read(w, op, sku, qty) ==
    /\ w \notin DOMAIN txn
    /\ sku \in DOMAIN products
    /\ op = "stockin_add" => Len(stock_in) + InFlight(op) < MaxStockIn
    /\ op = "manual_sale" => Len(sales) + InFlight(op) < MaxRaceSales
    /\ txn' = (w :> [op |-> op, sku |-> sku, qty |-> qty, p |-> products[sku],
                     pc |-> "read"]) @@ txn
    /\ UNCHANGED <<products, stock_in, sales, sale_items, cart, now, resp>>

(* if p.stock_qty < qty: flash, redirect *)
txn_validate(w) ==
    /\ w \in DOMAIN txn
    /\ txn[w].pc = "read"
    /\ IF txn[w].op = "manual_sale" /\ InsufficientStock(txn[w].p, txn[w].qty)
       THEN /\ txn' = [v \in DOMAIN txn \ {w} |-> txn[v]]
            /\ resp' = [op |-> txn[w].op, outcome |-> "InsufficientStock"]
       ELSE /\ txn' = [txn EXCEPT ![w].pc = "validated"]
            /\ UNCHANGED resp
    /\ UNCHANGED <<products, stock_in, sales, sale_items, cart, now>>

(* p.stock_qty += qty / p.stock_qty -= qty, on the loaded instance *)
txn_write(w) ==
    /\ w \in DOMAIN txn
    /\ txn[w].pc = "validated"
    /\ txn' = [txn EXCEPT ![w].pc = "written",
                          ![w].p.stock_qty =
                              IF txn[w].op = "stockin_add"
                              THEN StockAfterIn(@, txn[w].qty) ELSE @ - txn[w].qty]
    /\ UNCHANGED <<products, stock_in, sales, sale_items, cart, now, resp>>

(* db.session.commit(): the new rows are inserted and the product row gets *)
(* the stock the instance holds.                                           *)
txn_commit(w) ==
    /\ w \in DOMAIN txn
    /\ txn[w].pc = "written"
    /\ LET t == txn[w]
           price == t.p.retail_price
       IN  /\ products' = [products EXCEPT ![t.sku].stock_qty = t.p.stock_qty]
           /\ IF t.op = "stockin_add"
              THEN /\ stock_in' = AddStockIn(stock_in,
                                      [id |-> Len(stock_in) + 1, product_id |-> t.p.id,
                                       qty |-> t.qty, cost_per_unit |-> 1,
                                       new_retail_price |-> None,
                                       new_reseller_price |-> None, created_at |-> now])
                   /\ UNCHANGED <<sales, sale_items>>
              ELSE /\ sales' = Append(sales, [id |-> Len(sales) + 1, channel |-> "manual",
                                              total_amount |-> price * t.qty,
                                              created_at |-> now])
                   /\ sale_items' = Append(sale_items,
                                      [id |-> Len(sale_items) + 1, sale_id |-> Len(sales) + 1,
                                       product_id |-> t.p.id, qty |-> t.qty,
                                       price |-> price])
                   /\ UNCHANGED stock_in
           /\ resp' = [op |-> t.op, outcome |-> "ok"]
    /\ txn' = [v \in DOMAIN txn \ {w} |-> txn[v]]
    /\ UNCHANGED <<cart, now>>

(* -------------------------------- GET /cashflow ------------------------ *)
Chars == {"a", "b", "z", "A", "B", "_", "%"}

(* ILIKE compares without regard to case. *)
Lower(c) == IF c = "A" THEN "a" ELSE IF c = "B" THEN "b" ELSE c

(* text ILIKE pat: in the pattern % stands for any run of characters and _ *)
(* for any one character; every other character stands for itself         *)
RECURSIVE LikeMatch(_, _)
LikeMatch(text, pat) ==
    IF pat = <<>> THEN text = <<>>
    ELSE IF Head(pat) = "%"
    THEN LikeMatch(text, Tail(pat)) \/ (text # <<>> /\ LikeMatch(Tail(text), pat))
    ELSE /\ text # <<>>
         /\ Head(pat) = "_" \/ Lower(Head(pat)) = Lower(Head(text))
         /\ LikeMatch(Tail(text), Tail(pat))

(* like = f"%{q}%"; column.ilike(like) *)
ILike(text, q) == LikeMatch(text, <<"%">> \o q \o <<"%">>)

(* datetime.strptime(date, "%Y-%m-%d"): midnight of the day; None is ValueError *)
ParseDate_Lenient(raw) == IF raw.k = "bad" THEN Some(0) ELSE Some(raw.v * DayLen)

ParseDate(raw) == IF raw.k = "bad" THEN None ELSE Some(raw.v * DayLen)

(* dt_to + timedelta(days=1) *)
EndExclusive_SameDay(dt_to) == dt_to

EndExclusive(dt_to) == dt_to + DayLen

ProductById(id) == CHOOSE sku \in DOMAIN products : products[sku].id = id

SaleById(id) == CHOOSE i \in DOMAIN sales : sales[i].id = id

(* the date and text filters, applied alike to both event queries *)
Matches(time, sku, dt_from, dt_to_excl, q) ==
    /\ dt_from # None => time >= dt_from[1]
    /\ dt_to_excl # None => time < dt_to_excl[1]
    /\ q # <<>> => (ILike(sku, q) \/ ILike(products[sku].name, q))

(* sale_q: SaleItem joined to its Sale and its Product *)
SaleEvent(it) ==
    LET sale == sales[SaleById(it.sale_id)]
        sku == ProductById(it.product_id)
    IN  [time |-> sale.created_at, channel |-> sale.channel, sku |-> sku,
         product_name |-> products[sku].name, qty |-> it.qty, unit_price |-> it.price,
         amount |-> it.qty * it.price, etype |-> "SALE"]

(* in_q: StockIn joined to its Product *)
StockInEvent(si) ==
    LET sku == ProductById(si.product_id)
    IN  [time |-> si.created_at, channel |-> "stock_in", sku |-> sku,
         product_name |-> products[sku].name, qty |-> si.qty, unit_price |-> si.cost_per_unit,
         amount |-> (-si.qty) * si.cost_per_unit, etype |-> "STOCKIN"]

RECURSIVE SumAmount(_)
SumAmount(rows) == IF rows = <<>> THEN 0 ELSE Head(rows).amount + SumAmount(Tail(rows))

RECURSIVE SumTotalAmount(_)
SumTotalAmount(rows) ==
    IF rows = <<>> THEN 0 ELSE Head(rows).total_amount + SumTotalAmount(Tail(rows))

RECURSIVE SumStockInCost(_)
SumStockInCost(rows) ==
    IF rows = <<>> THEN 0
    ELSE Head(rows).qty * Head(rows).cost_per_unit + SumStockInCost(Tail(rows))

(* the rows of the all-time sales total: every Sale, whatever the filters *)
SalesAll_Filtered(dt_from, dt_to_excl) ==
    SelectSeq(sales, LAMBDA r : /\ dt_from # None => r.created_at >= dt_from[1]
                                /\ dt_to_excl # None => r.created_at < dt_to_excl[1])

SalesAll(dt_from, dt_to_excl) == sales

(* sale_q.union_all(in_q) after the filters *)
Events(dt_from, dt_to_excl, q) ==
    LET sale_q == [i \in DOMAIN sale_items |-> SaleEvent(sale_items[i])]
        in_q == [i \in DOMAIN stock_in |-> StockInEvent(stock_in[i])]
        keep(e) == Matches(e.time, e.sku, dt_from, dt_to_excl, q)
    IN  SelectSeq(sale_q, keep) \o SelectSeq(in_q, keep)

(* .order_by(events.c.time.desc()): no row is older than a row after it;   *)
(* rows of equal time come in whatever order the database yields.          *)
TimeDesc_Asc(a, b) == a.time <= b.time

TimeDesc(a, b) == a.time >= b.time

RECURSIVE OrderRows(_, _)
OrderRows(events, left) ==
    IF left = {} THEN {<<>>}
    ELSE UNION {{<<events[i]>> \o s : s \in OrderRows(events, left \ {i})} :
                   i \in {i \in left : \A j \in left : TimeDesc(events[i], events[j])}}

OrderByTimeDesc(events) == OrderRows(events, DOMAIN events)

(* .limit(cap) *)
Limit(rows, cap) == SubSeq(rows, 1, IF cap < Len(rows) THEN cap ELSE Len(rows))

(* .limit(500) of the displayed rows *)
RowCap == 500

(* the row lists that order_by(time desc).limit(cap).all() can return *)
LedgerRows(events, cap) == {Limit(s, cap) : s \in OrderByTimeDesc(events)}

(* func.sum(events.c.amount) over the events subquery, which carries no    *)
(* limit                                                                   *)
BalanceRange_OfRows(events, cap) == SumAmount(Limit(events, cap))

BalanceRange(events, cap) == SumAmount(events)

(* sold_stats_q: SaleItem joined to its Product and its Sale, under the    *)
(* date and text filters                                                   *)
SoldItems(dt_from, dt_to_excl, q) ==
    SelectSeq([i \in DOMAIN sale_items |-> SaleEvent(sale_items[i])],
              LAMBDA e : Matches(e.time, e.sku, dt_from, dt_to_excl, q))

RECURSIVE SumQty(_)
SumQty(rows) == IF rows = <<>> THEN 0 ELSE Head(rows).qty + SumQty(Tail(rows))

(* .group_by(Product.sku, Product.name) with sum(qty) and sum(qty * price) *)
SoldGroups(items) ==
    {LET of == SelectSeq(items, LAMBDA e : e.sku = sku)
     IN  [sku |-> sku, name |-> products[sku].name, qty_sold |-> SumQty(of),
          revenue |-> SumAmount(of)] : sku \in {items[i].sku : i \in DOMAIN items}}

(* .order_by(func.sum(SaleItem.qty).desc()); groups of equal quantity come *)
(* in whatever order the database yields                                   *)
QtyDesc_Asc(a, b) == a.qty_sold <= b.qty_sold

QtyDesc(a, b) == a.qty_sold >= b.qty_sold

RECURSIVE OrderGroups(_)
OrderGroups(left) ==
    IF left = {} THEN {<<>>}
    ELSE UNION {{<<g>> \o s : s \in OrderGroups(left \ {g})} :
                   g \in {g \in left : \A h \in left : QtyDesc(g, h)}}

(* .limit(20) of the top sellers *)
TopCap == 20

(* the lists that sold_stats can be, with the limit `top` *)
SoldStats(items, top) == {Limit(s, top) : s \in OrderGroups(SoldGroups(items))}

(* the handler with the row limit `cap` *)
CashflowQuery(date_from, date_to, q, cap) ==
    LET dt_from == IF date_from.k = "empty" THEN Some(None)
                   ELSE IF ParseDate(date_from) = None THEN None
                   ELSE Some(ParseDate(date_from))
        dt_to_excl == IF date_to.k = "empty" THEN Some(None)
                      ELSE IF ParseDate(date_to) = None THEN None
                      ELSE Some(Some(EndExclusive(ParseDate(date_to)[1])))
    IN  IF dt_from = None \/ dt_to_excl = None
        THEN [outcome |-> "InvalidInput", flash |-> "Format tanggal harus YYYY-MM-DD"]
        ELSE
        LET total_sales_all == SumTotalAmount(SalesAll(dt_from[1], dt_to_excl[1]))
            total_stockin_all == SumStockInCost(stock_in)
            events == Events(dt_from[1], dt_to_excl[1], q)
        IN  [outcome |-> "ok",
             balance_all_time |-> total_sales_all - total_stockin_all,
             balance_range |-> BalanceRange(events, cap),
             total_in_all |-> total_sales_all,
             total_out_all |-> total_stockin_all,
             events |-> events,
             sold |-> SoldItems(dt_from[1], dt_to_excl[1], q)]

(* the figures of the rendered page.  The page also shows one of the row   *)
(* lists LedgerRows(events, RowCap) and one of the top-seller lists        *)
(* SoldStats(sold, TopCap); which one is the database's choice among rows  *)
(* of equal rank.                                                          *)
CashflowResult(date_from, date_to, q) ==
    LET r == CashflowQuery(date_from, date_to, q, RowCap)
    IN  IF r.outcome # "ok" THEN r
        ELSE [outcome |-> "ok", balance_all_time |-> r.balance_all_time,
              balance_range |-> r.balance_range, total_in_all |-> r.total_in_all,
              total_out_all |-> r.total_out_all]

cashflow_step(date_from, date_to, q) ==
    /\ resp' = [op |-> "cashflow", date_from |-> date_from, date_to |-> date_to, q |-> q,
                result |-> CashflowResult(date_from, date_to, q)]
    /\ UNCHANGED <<products, stock_in, sales, sale_items, cart, now, txn>>

cashflow(In) == \E a \in In.cashflow : cashflow_step(a[1], a[2], a[3])

(* ------------------------------ specifications ------------------------- *)
Skus == {SkuA, SkuB}
Qtys == {Num(n) : n \in 1..MaxQty}
Moneys == {Num(n) : n \in 1..MaxMoney}
NameA == <<"a", "b">>

(* Two products, the cart and every mutating handler. *)
StoreIn ==
    [upsert |-> Skus \X {NameA} \X {Num(1)} \X Moneys \X {Empty},
     stockin |-> Skus \X Qtys \X {Num(MaxMoney)} \X {Empty} \X {Empty},
     cart_add |-> Skus \X (Qtys \cup {Num(0), Num(-1)}),
     manual |-> Skus \X Qtys \X {Empty},
     max_stock_in |-> MaxStockIn,
     max_sales |-> MaxSales]

Next ==
    \/ product_upsert(StoreIn)
    \/ stockin_add(StoreIn)
    \/ store_cart_add(StoreIn)
    \/ store_cart_clear
    \/ store_checkout_post(StoreIn)
    \/ manual_sale(StoreIn)

Spec == Init /\ [][Next]_vars

(* One product, every mutating handler over valid, omitted, rejected and   *)
(* malformed parameters.                                                   *)
SaleIn ==
    [upsert |-> ({SkuA} \X {NameA} \X {Empty, Num(1)} \X {Empty, Num(1)} \X {Empty})
                \cup {<<SkuA, NameA, Bad, Empty, Empty>>, <<<<>>, NameA, Empty, Empty, Empty>>},
     stockin |-> ({SkuA} \X Qtys \X ({Empty} \cup Moneys) \X {Empty, Num(MaxMoney)}
                         \X {Empty})
                 \cup {<<SkuNone, Num(1), Num(1), Empty, Empty>>,
                       <<SkuA, Num(0), Num(1), Empty, Empty>>,
                       <<SkuA, Num(0 - 1), Num(1), Empty, Empty>>,
                       <<SkuA, Empty, Num(1), Empty, Empty>>,
                       <<SkuA, Bad, Num(1), Empty, Empty>>,
                       <<SkuA, Num(1), Bad, Empty, Empty>>,
                       <<SkuA, Num(1), Num(1), Bad, Empty>>},
     cart_add |-> ({SkuA} \X (Qtys \cup {Num(0), Empty, Bad})) \cup {<<SkuNone, Num(1)>>},
     manual |-> ({SkuA} \X Qtys \X {Empty, Num(MaxMoney + 1)})
                \cup {<<SkuNone, Num(1), Empty>>, <<SkuA, Num(0), Empty>>,
                      <<SkuA, Bad, Empty>>, <<SkuA, Num(1), Bad>>,
                      <<SkuA, Num(MaxQty), Fine(4)>>},
     max_stock_in |-> MaxStockIn,
     max_sales |-> MaxSales]

NextSale ==
    \/ product_upsert(SaleIn)
    \/ stockin_add(SaleIn)
    \/ store_cart_add(SaleIn)
    \/ store_cart_clear
    \/ store_checkout_post(SaleIn)
    \/ manual_sale(SaleIn)

SpecSale == Init /\ [][NextSale]_vars

(* Two products and the ledger query over records made at different times. *)
Dates == {Num(d) : d \in 0..MaxDay}
DateInputs == {Empty, Bad} \cup Dates
TextInputs == {<<>>, <<"A">>, <<"b">>}

LedgerIn ==
    [upsert |-> {<<SkuA, NameA, Empty, Num(1), Empty>>, <<SkuB, <<"B">>, Empty, Num(1), Empty>>},
     stockin |-> Skus \X {Num(MaxQty)} \X {Num(MaxMoney)} \X {Empty} \X {Empty},
     manual |-> Skus \X Qtys \X {Empty},
     cashflow |-> {<<Empty, Empty, <<>>>>, <<Num(0), Num(0), <<>>>>, <<Num(MaxDay), Empty, <<>>>>,
                   <<Empty, Empty, <<"A">>>>, <<Num(0), Empty, <<"_">>>>,
                   <<Bad, Empty, <<>>>>, <<Num(0), Bad, <<>>>>},
     max_stock_in |-> MaxStockIn,
     max_sales |-> MaxLedgerSales]

NextLedger ==
    \/ Tick
    \/ product_upsert(LedgerIn)
    \/ stockin_add(LedgerIn)
    \/ manual_sale(LedgerIn)
    \/ cashflow(LedgerIn)

SpecLedger == Init /\ [][NextLedger]_vars

(* Two products and stock-ins with and without new prices. *)
PriceOverrides == {Empty, Num(0), Num(MaxMoney)}

PriceIn ==
    [upsert |-> Skus \X {NameA} \X {Empty} \X {Num(1)} \X {Num(1)},
     stockin |-> Skus \X {Num(1)} \X {Num(1)} \X PriceOverrides \X PriceOverrides,
     max_stock_in |-> MaxStockIn]

NextPrice ==
    \/ product_upsert(PriceIn)
    \/ stockin_add(PriceIn)

SpecPrice == Init /\ [][NextPrice]_vars

(* Two products sold several times each, and their sales statistics. *)
StatsIn ==
    [upsert |-> {<<SkuA, NameA, Empty, Num(1), Empty>>, <<SkuB, <<"B">>, Empty, Num(MaxMoney), Empty>>},
     stockin |-> Skus \X {Num(MaxQty)} \X {Num(1)} \X {Empty} \X {Empty},
     manual |-> Skus \X Qtys \X {Empty},
     cashflow |-> {<<Empty, Empty, <<>>>>, <<Num(MaxDay), Empty, <<>>>>,
                   <<Empty, Empty, <<"A">>>>},
     max_stock_in |-> MaxStockIn,
     max_sales |-> MaxStatSales]

NextStats ==
    \/ Tick
    \/ product_upsert(StatsIn)
    \/ stockin_add(StatsIn)
    \/ manual_sale(StatsIn)
    \/ cashflow(StatsIn)

SpecStats == Init /\ [][NextStats]_vars

(* One product, created and stocked by requests served alone, and then    *)
(* stock-ins and manual sales of it served by two workers at once.         *)
RaceIn ==
    [upsert |-> {<<SkuA, NameA, Empty, Num(1), Empty>>},
     stockin |-> {<<SkuA, Num(MaxQty), Num(1), Empty, Empty>>},
     max_stock_in |-> MaxStockIn]

NextRace ==
    \/ DOMAIN txn = {} /\ product_upsert(RaceIn)
    \/ DOMAIN txn = {} /\ stockin_add(RaceIn)
    \/ \E w \in Workers, op \in {"stockin_add", "manual_sale"}, qty \in 1..MaxQty :
          txn_read(w, op, SkuA, qty)
    \/ \E w \in Workers : txn_validate(w)
    \/ \E w \in Workers : txn_write(w)
    \/ \E w \in Workers : txn_commit(w)

SpecRace == Init /\ [][NextRace]_vars

(* ------------------------------ properties ----------------------------- *)
Last(s) == s[Len(s)]

(* What a later request reads as the product's cost: the attribute of the  *)
(* instance loaded from the persisted row.                                 *)
StoredCost(prods, sku) == GetAttr(FindProductIn(prods, sku)[1], "cost_price")

RECURSIVE CartTotal(_)
CartTotal(S) ==
    IF S = {} THEN 0
    ELSE LET sku == CHOOSE x \in S : TRUE
         IN  cart[sku] * products[sku].retail_price + CartTotal(S \ {sku})

AppendOnly(old, new) ==
    /\ Len(new) >= Len(old)
    /\ \A i \in DOMAIN old : new[i] = old[i]

(* C1: in every state reachable by product upsert, stock-in, cart add and  *)
(* clear, checkout and manual sale requests, every product's stock_qty is  *)
(* at least 0.                                                             *)
C1_StockNeverNegative == \A sku \in DOMAIN products : products[sku].stock_qty >= 0

C1_Witness ==
    /\ resp.op \in {"manual_sale", "store_checkout_post"}
    /\ resp.outcome = "ok"
    /\ \E sku \in DOMAIN products : products[sku].stock_qty = 0

(* C2: a checkout in which some cart line asks for more than the product's *)
(* stock changes no product and persists no Sale and no SaleItem, whatever  *)
(* the place of the failing line in the iteration order.                   *)
C2_CheckoutAllOrNothing ==
    [][\A order \in Perms(DOMAIN cart) :
          (/\ store_checkout_post_step(order)
           /\ \E sku \in DOMAIN cart :
                 sku \in DOMAIN products /\ cart[sku] > products[sku].stock_qty)
          => (/\ resp'.outcome = "InsufficientStock"
              /\ products' = products
              /\ sales' = sales
              /\ sale_items' = sale_items)]_vars

C2_Witness ==
    /\ resp.op = "store_checkout_post"
    /\ resp.outcome = "InsufficientStock"
    /\ \E a, b \in DOMAIN cart :
          /\ a # b
          /\ cart[a] <= products[a].stock_qty
          /\ cart[b] > products[b].stock_qty

(* C3: a manual sale of q units of a product with stock s < q fails with   *)
(* the insufficient-stock error, leaves the stock at s and persists no     *)
(* Sale and no SaleItem.                                                   *)
C3_ManualSaleInsufficient ==
    [][\A a \in SaleIn.manual :
          (/\ manual_sale_step(a[1], a[2], a[3])
           /\ a[2].k = "num"
           /\ a[1] \in DOMAIN products
           /\ a[2].v > products[a[1]].stock_qty)
          => (/\ resp'.outcome = "InsufficientStock"
              /\ products' = products
              /\ sales' = sales
              /\ sale_items' = sale_items)]_vars

C3_Witness ==
    /\ resp.op = "manual_sale"
    /\ resp.outcome = "InsufficientStock"
    /\ \E sku \in DOMAIN products : products[sku].stock_qty > 0

(* C4: a successful stock-in of q > 0 units at the supplied cost c appends *)
(* exactly one StockIn record (P, q, c), raises P's stock by q and leaves   *)
(* c as the cost a later request reads from the product.                   *)
C4_StockInStoresCost ==
    [][\A a \in SaleIn.stockin :
          (/\ stockin_add_step(a[1], a[2], a[3], a[4], a[5])
           /\ a[3].k = "num"
           /\ resp'.outcome = "ok")
          => (/\ Len(stock_in') = Len(stock_in) + 1
              /\ AppendOnly(stock_in, stock_in')
              /\ Last(stock_in').product_id = products[a[1]].id
              /\ Last(stock_in').qty = a[2].v
              /\ Last(stock_in').cost_per_unit = a[3].v
              /\ products'[a[1]].stock_qty = products[a[1]].stock_qty + a[2].v
              /\ StoredCost(products', a[1]) = Some(a[3].v))]_vars

(* C5: a stock-in that omits the cost succeeds, records the product's      *)
(* stored cost, raises the stock by the quantity and leaves the stored      *)
(* cost unchanged.                                                         *)
C5_StockInCarriesCostForward ==
    [][\A a \in SaleIn.stockin :
          (/\ stockin_add_step(a[1], a[2], a[3], a[4], a[5])
           /\ a[3].k = "empty"
           /\ a[2].k = "num" /\ a[2].v > 0
           /\ a[1] \in DOMAIN products)
          => (/\ resp'.outcome = "ok"
              /\ Len(stock_in') = Len(stock_in) + 1
              /\ Some(Last(stock_in').cost_per_unit) = StoredCost(products, a[1])
              /\ products'[a[1]].stock_qty = products[a[1]].stock_qty + a[2].v
              /\ StoredCost(products', a[1]) = StoredCost(products, a[1]))]_vars

(* C6: checkout of a non-empty cart whose every line fits the stock        *)
(* persists one Sale of channel store with one SaleItem per cart line at   *)
(* the product's retail price, a total of the sum of qty * price, takes    *)
(* each line's quantity off its product's stock and empties the cart.      *)
C6_CheckoutSuccess ==
    [][\A order \in Perms(DOMAIN cart) :
          (/\ store_checkout_post_step(order)
           /\ DOMAIN cart # {}
           /\ \A sku \in DOMAIN cart :
                 sku \in DOMAIN products /\ cart[sku] <= products[sku].stock_qty)
          => LET sale == Last(sales')
                 new == SubSeq(sale_items', Len(sale_items) + 1, Len(sale_items'))
             IN  /\ resp'.outcome = "ok"
                 /\ Len(sales') = Len(sales) + 1
                 /\ AppendOnly(sales, sales')
                 /\ AppendOnly(sale_items, sale_items')
                 /\ sale.channel = "store"
                 /\ Len(new) = Cardinality(DOMAIN cart)
                 /\ \A sku \in DOMAIN cart : \E i \in DOMAIN new :
                       /\ new[i].sale_id = sale.id
                       /\ new[i].product_id = products[sku].id
                       /\ new[i].qty = cart[sku]
                       /\ new[i].price = products[sku].retail_price
                 /\ sale.total_amount = CartTotal(DOMAIN cart)
                 /\ DOMAIN products' = DOMAIN products
                 /\ \A sku \in DOMAIN products :
                       products'[sku] =
                           [products[sku] EXCEPT !.stock_qty =
                               @ - (IF sku \in DOMAIN cart THEN cart[sku] ELSE 0)]
                 /\ DOMAIN cart' = {}]_vars

C6_Witness ==
    /\ resp.op = "store_checkout_post"
    /\ resp.outcome = "ok"
    /\ Len(sale_items) = 2
    /\ sale_items[1].sale_id = sale_items[2].sale_id
    /\ sale_items[1].price # sale_items[2].price
    /\ Last(sales).total_amount > 0

(* C7: a successful manual sale of q units persists one Sale of channel    *)
(* manual with exactly one SaleItem, priced at the supplied price or, when  *)
(* none is supplied, at the product's retail price; the total is q times   *)
(* that price, the stock falls by q and nothing else of the product        *)
(* changes.                                                                *)
C7_ManualSaleSuccess ==
    [][\A a \in SaleIn.manual :
          (/\ resp'.op = "manual_sale"
           /\ resp'.outcome = "ok"
           /\ manual_sale_step(a[1], a[2], a[3]))
          => LET sku == a[1]
                 q == a[2].v
                 supplied == IF a[3].k = "empty" THEN ToDecimal(products[sku].retail_price)
                             ELSE IF a[3].k = "fine" THEN a[3].v
                             ELSE ToDecimal(a[3].v)
             IN  /\ Len(sales') = Len(sales) + 1
                 /\ AppendOnly(sales, sales')
                 /\ Len(sale_items') = Len(sale_items) + 1
                 /\ AppendOnly(sale_items, sale_items')
                 /\ Last(sales').channel = "manual"
                 /\ ToDecimal(Last(sales').total_amount) = q * supplied
                 /\ Last(sale_items').sale_id = Last(sales').id
                 /\ Last(sale_items').product_id = products[sku].id
                 /\ Last(sale_items').qty = q
                 /\ ToDecimal(Last(sale_items').price) = supplied
                 /\ products' = [products EXCEPT ![sku].stock_qty = @ - q]
                 /\ StoredCost(products', sku) = StoredCost(products, sku)]_vars

C7_Witness ==
    /\ resp.op = "manual_sale"
    /\ resp.outcome = "ok"
    /\ Last(sale_items).qty = 2
    /\ Last(sale_items).price \in 1..MaxMoney
    /\ Last(sales).total_amount = 2 * Last(sale_items).price

(* C8: a committed StockIn, Sale or SaleItem record never changes and is   *)
(* never deleted by any later request, price-changing upserts and          *)
(* stock-ins included.                                                     *)
C8_RecordsImmutable ==
    [][/\ AppendOnly(stock_in, stock_in')
       /\ AppendOnly(sales, sales')
       /\ AppendOnly(sale_items, sale_items')]_vars

C8_Witness ==
    /\ resp.op \in {"product_upsert", "stockin_add"}
    /\ resp.outcome = "ok"
    /\ Len(stock_in) > 0
    /\ \E i \in DOMAIN sale_items : \E sku \in DOMAIN products :
          /\ sales[sale_items[i].sale_id].channel = "store"
          /\ sale_items[i].product_id = products[sku].id
          /\ sale_items[i].price # products[sku].retail_price

RECURSIVE SumFn(_, _)
SumFn(f, n) == IF n = 0 THEN 0 ELSE f[n] + SumFn(f, n - 1)

(* money received by all sales minus money paid for all stock receipts *)
LedgerBalance ==
    SumFn([i \in DOMAIN sales |-> sales[i].total_amount], Len(sales))
    - SumFn([i \in DOMAIN stock_in |-> stock_in[i].qty * stock_in[i].cost_per_unit],
            Len(stock_in))

(* the signed amounts of the events from day d1 00:00 up to, not including, *)
(* the midnight that ends day d2                                            *)
WindowBalance(d1, d2) ==
    LET in(t) == d1 * DayLen <= t /\ t < (d2 + 1) * DayLen
    IN  SumFn([i \in DOMAIN sale_items |->
                  IF in(sales[sale_items[i].sale_id].created_at)
                  THEN sale_items[i].qty * sale_items[i].price ELSE 0], Len(sale_items))
        - SumFn([i \in DOMAIN stock_in |->
                    IF in(stock_in[i].created_at)
                    THEN stock_in[i].qty * stock_in[i].cost_per_unit ELSE 0], Len(stock_in))

(* C9: for every ledger state and every date_from, date_to and text filter *)
(* the reported balance_all_time is the sum of all Sale totals minus the   *)
(* sum of qty * cost_per_unit of all StockIn records.                      *)
C9_BalanceAllTime ==
    /\ \A f \in {Empty} \cup Dates, t \in {Empty} \cup Dates, q \in TextInputs :
          CashflowResult(f, t, q).balance_all_time = LedgerBalance
    /\ (resp.op = "cashflow" /\ resp.result.outcome = "ok")
          => resp.result.balance_all_time = LedgerBalance

C9_Witness ==
    /\ resp.op = "cashflow"
    /\ resp.result.outcome = "ok"
    /\ resp.date_from # Empty
    /\ Len(sales) > 0
    /\ Len(stock_in) > 1
    /\ resp.result.balance_range # resp.result.balance_all_time
    /\ resp.result.total_in_all > 0

(* C10: with a window date_from..date_to and no text filter, balance_range *)
(* is the sum of +qty * price of the sale items and -qty * cost_per_unit   *)
(* of the stock-ins timed from date_from 00:00 up to, not including, the    *)
(* midnight after date_to.                                                 *)
C10_BalanceRangeWindow ==
    /\ \A f \in Dates, t \in Dates :
          CashflowResult(f, t, <<>>).balance_range = WindowBalance(f.v, t.v)
    /\ (/\ resp.op = "cashflow"
        /\ resp.date_from \in Dates
        /\ resp.date_to \in Dates
        /\ resp.q = <<>>)
          => resp.result.balance_range = WindowBalance(resp.date_from.v, resp.date_to.v)

C10_Witness ==
    /\ resp.op = "cashflow"
    /\ resp.date_from = Num(0)
    /\ resp.date_to = Num(0)
    /\ resp.q = <<>>
    /\ \E i \in DOMAIN stock_in : stock_in[i].created_at = DayLen - 1
    /\ \E i \in DOMAIN sales : sales[i].created_at = DayLen
    /\ resp.result.balance_range # resp.result.balance_all_time

(* the row limits the ledger is examined for: every limit up to the number *)
(* of events the ledger can hold, and the handler's own                    *)
RowCaps == (0..(MaxStockIn + MaxLedgerSales)) \cup {RowCap}

(* C11: for the filters of every served ledger request and every row       *)
(* limit, the number of returned rows is the smaller of the limit and the  *)
(* number of matching events, and balance_range is the sum of the amounts  *)
(* of all matching events, the same under every limit, limits below the    *)
(* number of matching events included; the handler's limit is 500.         *)
C11_RowCountAndBalance ==
    /\ RowCap = 500
    /\ (resp.op = "cashflow" /\ resp.result.outcome = "ok")
          => LET events == CashflowQuery(resp.date_from, resp.date_to, resp.q, RowCap).events
                 n == Len(events)
             IN  /\ resp.result.balance_range = SumAmount(events)
                 /\ \A cap \in RowCaps :
                       /\ \A rows \in LedgerRows(events, cap) :
                             Len(rows) = (IF cap < n THEN cap ELSE n)
                       /\ CashflowQuery(resp.date_from, resp.date_to, resp.q, cap).balance_range
                             = resp.result.balance_range

C11_Witness ==
    /\ resp.op = "cashflow"
    /\ resp.result.outcome = "ok"
    /\ LET events == CashflowQuery(resp.date_from, resp.date_to, resp.q, RowCap).events
       IN  /\ Len(events) = MaxStockIn + MaxLedgerSales
           /\ \E cap \in RowCaps : \E rows \in LedgerRows(events, cap) :
                 /\ Len(rows) = cap
                 /\ cap < Len(events)
                 /\ SumAmount(rows) # resp.result.balance_range

(* C12: a ledger request whose date_from or date_to is not a date, the     *)
(* other one valid or omitted, answers with the invalid-input message that *)
(* names the format YYYY-MM-DD and with nothing else: no rows and no       *)
(* balance, filtered or unfiltered.                                        *)
C12_BadDateNoResult ==
    LET rejected == [outcome |-> "InvalidInput", flash |-> "Format tanggal harus YYYY-MM-DD"]
    IN  /\ \A f \in DateInputs, t \in DateInputs, q \in TextInputs :
              (f = Bad \/ t = Bad) => CashflowQuery(f, t, q, RowCap) = rejected
        /\ (resp.op = "cashflow" /\ (resp.date_from = Bad \/ resp.date_to = Bad))
              => resp.result = rejected

C12_Witness ==
    /\ resp.op = "cashflow"
    /\ resp.date_from = Num(0)
    /\ resp.date_to = Bad
    /\ resp.result.outcome = "InvalidInput"
    /\ Len(sale_items) > 0
    /\ Len(stock_in) > 0

(* C13: a stock-in request whose quantity is zero, negative or omitted, or  *)
(* whose SKU names no product, is refused: the stock_in table and the      *)
(* products table, and so every product's stock and prices, stay as they   *)
(* were and no product is created.                                         *)
C13_StockInRejected ==
    [][\A a \in SaleIn.stockin :
          (/\ \/ a[2].k = "empty"
              \/ (a[2].k = "num" /\ a[2].v <= 0)
              \/ a[1] \notin DOMAIN products
           /\ stockin_add_step(a[1], a[2], a[3], a[4], a[5]))
          => (/\ resp'.outcome # "ok"
              /\ (a[2].k # "bad" => resp'.outcome \in {"InvalidInput", "NotFound"})
              /\ stock_in' = stock_in
              /\ products' = products)]_vars

C13_Witness ==
    /\ resp.op = "stockin_add"
    /\ resp.outcome = "NotFound"
    /\ DOMAIN products # {}
    /\ Len(stock_in) > 0

(* C14: a successful stock-in sets the product's retail price to the new   *)
(* retail price when one is supplied and its reseller price to the new     *)
(* reseller price when one is supplied; a price whose override is omitted  *)
(* keeps its value, and every other product stays as it was.               *)
C14_StockInPriceOverrides ==
    [][\A a \in PriceIn.stockin :
          (/\ stockin_add_step(a[1], a[2], a[3], a[4], a[5])
           /\ resp'.outcome = "ok")
          => (/\ DOMAIN products' = DOMAIN products
              /\ products'[a[1]].retail_price =
                    (IF a[4].k = "empty" THEN products[a[1]].retail_price ELSE a[4].v)
              /\ products'[a[1]].reseller_price =
                    (IF a[5].k = "empty" THEN products[a[1]].reseller_price ELSE a[5].v)
              /\ \A o \in DOMAIN products \ {a[1]} : products'[o] = products[o])]_vars

C14_Witness ==
    /\ resp.op = "stockin_add"
    /\ resp.outcome = "ok"
    /\ Cardinality(DOMAIN products) = 2
    /\ Last(stock_in).new_retail_price = None
    /\ Last(stock_in).new_reseller_price = Some(MaxMoney)
    /\ \E sku \in DOMAIN products :
          /\ products[sku].id = Last(stock_in).product_id
          /\ products[sku].retail_price = 1
          /\ products[sku].reseller_price = MaxMoney

(* the units received and the units sold of the product with the given id *)
ReceivedQty(id) ==
    SumFn([i \in DOMAIN stock_in |->
              IF stock_in[i].product_id = id THEN stock_in[i].qty ELSE 0], Len(stock_in))

SoldQty(id) ==
    SumFn([i \in DOMAIN sale_items |->
              IF sale_items[i].product_id = id THEN sale_items[i].qty ELSE 0],
          Len(sale_items))

(* C15: when stock-in and manual sale requests on one SKU are served at    *)
(* the same time, their reads, tests, writes and commits interleaved, the  *)
(* product's stock is at every moment its committed stock-in quantities    *)
(* minus its committed sale quantities, and never negative.                *)
C15_NoLostUpdate ==
    \A sku \in DOMAIN products :
        /\ products[sku].stock_qty
              = ReceivedQty(products[sku].id) - SoldQty(products[sku].id)
        /\ products[sku].stock_qty >= 0

(* how many times the record e occurs in the sequence s *)
Count(s, e) == Cardinality({i \in DOMAIN s : s[i] = e})

(* rows is in time-descending order, holds only events of the list, and    *)
(* every event it leaves out is no later than each of its rows             *)
MostRecent(rows, events) ==
    /\ \A i, j \in DOMAIN rows : i < j => rows[i].time >= rows[j].time
    /\ \A e \in Range(rows) : Count(rows, e) <= Count(events, e)
    /\ \A i \in DOMAIN rows :
          Cardinality({k \in DOMAIN events : events[k].time > rows[i].time})
            = Cardinality({k \in DOMAIN rows : rows[k].time > rows[i].time})

(* C16: the rows of a ledger request come latest first, and under every    *)
(* row limit they are the latest matching events: no event left out by the *)
(* limit is later than a returned row.                                     *)
C16_RowsMostRecent ==
    (resp.op = "cashflow" /\ resp.result.outcome = "ok")
       => LET events == CashflowQuery(resp.date_from, resp.date_to, resp.q, RowCap).events
          IN  \A cap \in RowCaps : \A rows \in LedgerRows(events, cap) :
                  MostRecent(rows, events)

C16_Witness ==
    /\ resp.op = "cashflow"
    /\ resp.result.outcome = "ok"
    /\ LET events == CashflowQuery(resp.date_from, resp.date_to, resp.q, RowCap).events
       IN  \E rows \in LedgerRows(events, 2) :
               /\ Len(events) > 2
               /\ rows[1].time = rows[2].time
               /\ rows[1].etype # rows[2].etype
               /\ \E k \in DOMAIN events : events[k].time < rows[2].time

(* text contains q, letters compared without regard to case *)
Contains(text, q) ==
    \E i \in 0..(Len(text) - Len(q)) :
        \A j \in 1..Len(q) : Lower(text[i + j]) = Lower(q[j])

(* C17: the events of a ledger request with a text filter are those events *)
(* of the date window, sale items and stock-ins alike, whose product's SKU *)
(* or name contains the text without regard to case, and balance_range is  *)
(* the sum of the amounts of the returned rows.                            *)
C17_TextFilter ==
    (resp.op = "cashflow" /\ resp.result.outcome = "ok" /\ resp.q # <<>>)
       => LET window == CashflowQuery(resp.date_from, resp.date_to, <<>>, RowCap).events
              events == CashflowQuery(resp.date_from, resp.date_to, resp.q, RowCap).events
              named(e) == Contains(e.sku, resp.q) \/ Contains(e.product_name, resp.q)
          IN  /\ events = SelectSeq(window, named)
              /\ \A rows \in LedgerRows(events, RowCap) :
                    resp.result.balance_range = SumAmount(rows)

(* the top-seller limits the statistics are examined for: every limit up   *)
(* to the number of products, and the handler's own                        *)
TopCaps == (0..Cardinality(Skus)) \cup {TopCap}

(* the sale rows of the ledger under the filters of the served request *)
SaleRows ==
    SelectSeq(CashflowQuery(resp.date_from, resp.date_to, resp.q, RowCap).events,
              LAMBDA e : e.etype = "SALE")

Sellers == {SaleRows[i].sku : i \in DOMAIN SaleRows}

QtyOf(sku) ==
    SumFn([i \in DOMAIN SaleRows |-> IF SaleRows[i].sku = sku THEN SaleRows[i].qty ELSE 0],
          Len(SaleRows))

RevenueOf(sku) ==
    SumFn([i \in DOMAIN SaleRows |->
              IF SaleRows[i].sku = sku THEN SaleRows[i].qty * SaleRows[i].unit_price ELSE 0],
          Len(SaleRows))

(* C18: under every limit, the handler's limit of 20 included, the         *)
(* top-seller list has one entry for each product with a sale item         *)
(* matching the date and text filters, up to the limit; an entry's         *)
(* quantity and revenue are the sums of qty and qty * price over the       *)
(* product's matching sale items; the entries come in descending order of  *)
(* quantity, and no product left out sold more than a listed one.          *)
C18_TopSellers ==
    /\ TopCap = 20
    /\ (resp.op = "cashflow" /\ resp.result.outcome = "ok")
          => LET sold == CashflowQuery(resp.date_from, resp.date_to, resp.q, RowCap).sold
                 n == Cardinality(Sellers)
             IN  \A top \in TopCaps : \A list \in SoldStats(sold, top) :
                   /\ Len(list) = (IF top < n THEN top ELSE n)
                   /\ \A i \in DOMAIN list :
                         /\ list[i].sku \in Sellers
                         /\ list[i].name = products[list[i].sku].name
                         /\ list[i].qty_sold = QtyOf(list[i].sku)
                         /\ list[i].revenue = RevenueOf(list[i].sku)
                   /\ \A i, j \in DOMAIN list :
                         i < j => (/\ list[i].sku # list[j].sku
                                   /\ list[i].qty_sold >= list[j].qty_sold)
                   /\ \A sku \in Sellers \ {list[i].sku : i \in DOMAIN list} :
                         \A i \in DOMAIN list : list[i].qty_sold >= QtyOf(sku)

C18_Witness ==
    /\ resp.op = "cashflow"
    /\ resp.result.outcome = "ok"
    /\ Cardinality(Sellers) = 2
    /\ Len(SaleRows) = 3
    /\ \E list \in SoldStats(CashflowQuery(resp.date_from, resp.date_to, resp.q, RowCap).sold, 1) :
          /\ Len(list) = 1
          /\ list[1].revenue # list[1].qty_sold
          /\ Cardinality({i \in DOMAIN SaleRows : SaleRows[i].sku = list[1].sku}) = 2
          /\ \E sku \in Sellers : QtyOf(sku) < list[1].qty_sold

(* C19: a stock-in or manual sale request with a malformed quantity, cost, *)
(* new price or sale price ends with the InvalidInput outcome, and the     *)
(* products, stock_in, sales and sale_items tables are as before.          *)
C19_MalformedInput ==
    [][/\ \A a \in SaleIn.stockin :
             (/\ Bad \in {a[2], a[3], a[4], a[5]}
              /\ stockin_add_step(a[1], a[2], a[3], a[4], a[5]))
             => (/\ resp'.outcome = "InvalidInput"
                 /\ UNCHANGED <<products, stock_in, sales, sale_items>>)
       /\ \A a \in SaleIn.manual :
             (/\ Bad \in {a[2], a[3]}
              /\ manual_sale_step(a[1], a[2], a[3]))
             => (/\ resp'.outcome = "InvalidInput"
                 /\ UNCHANGED <<products, stock_in, sales, sale_items>>)]_vars

(* every product's stock is what it received minus what it sold *)
Conserved ==
    \A sku \in DOMAIN products :
        products[sku].stock_qty
          = ReceivedQty(products[sku].id) - SoldQty(products[sku].id)

(* C20: before and after every request served on its own, each product's   *)
(* stock_qty is the sum of the quantities of its StockIn records minus the *)
(* sum of the quantities of its SaleItem records; an upsert that creates a *)
(* product gives it stock 0 and an upsert of an existing product leaves    *)
(* its stock_qty as it was.                                                *)
C20_StockConservation ==
    [][/\ Conserved
       /\ Conserved'
       /\ \A a \in StoreIn.upsert :
             (product_upsert_step(a[1], a[2], a[3], a[4], a[5]) /\ resp'.outcome = "ok")
             => products'[a[1]].stock_qty =
                   (IF a[1] \in DOMAIN products THEN products[a[1]].stock_qty ELSE 0)]_vars

C20_Witness ==
    /\ resp.op = "product_upsert"
    /\ resp.outcome = "ok"
    /\ Cardinality(DOMAIN products) = 1
    /\ Len(stock_in) = 2
    /\ \E sku \in DOMAIN products :
          /\ SoldQty(products[sku].id) > 0
          /\ products[sku].stock_qty > 0
          /\ \E i \in DOMAIN sale_items : sale_items[i].price # products[sku].retail_price

(* the sum of qty * price over the SaleItems of the sale with the given id *)
ItemsTotal(id) ==
    SumFn([i \in DOMAIN sale_items |->
              IF sale_items[i].sale_id = id
              THEN sale_items[i].qty * sale_items[i].price ELSE 0], Len(sale_items))

(* C21: every persisted Sale has at least one SaleItem and a total_amount  *)
(* equal to the sum of qty * price over its SaleItems, and a ledger        *)
(* request without filters reports balance_range equal to                  *)
(* balance_all_time.                                                       *)
C21_SaleTotals ==
    /\ \A s \in DOMAIN sales :
          /\ \E i \in DOMAIN sale_items : sale_items[i].sale_id = sales[s].id
          /\ sales[s].total_amount = ItemsTotal(sales[s].id)
    /\ CashflowResult(Empty, Empty, <<>>).balance_range
          = CashflowResult(Empty, Empty, <<>>).balance_all_time

(* every cart entry names an existing product and has a quantity >= 1 *)
CartValid(c) == \A sku \in DOMAIN c : sku \in DOMAIN products /\ c[sku] >= 1

(* the SaleItems appended by the step *)
NewItems == {i \in DOMAIN sale_items' : i > Len(sale_items)}

(* C22: in every reachable state each cart entry maps the SKU of an        *)
(* existing product to a quantity >= 1: cart add rejects an unknown SKU,   *)
(* turns a non-positive quantity into 1 and accumulates per SKU, and no    *)
(* step removes a product. Hence a successful checkout skips no cart line: *)
(* it writes exactly one SaleItem per cart entry, with the entry's         *)
(* quantity.                                                               *)
C22_CartEntriesValid ==
    /\ CartValid(cart)
    /\ [][/\ CartValid(cart)'
          /\ DOMAIN products \subseteq DOMAIN products'
          /\ \A a \in StoreIn.cart_add :
                store_cart_add_step(a[1], a[2]) =>
                    IF a[1] \notin DOMAIN products
                    THEN resp'.outcome = "NotFound" /\ cart' = cart
                    ELSE /\ resp'.outcome = "ok"
                         /\ cart'[a[1]] = (IF a[1] \in DOMAIN cart THEN cart[a[1]] ELSE 0)
                                            + (IF a[2].v <= 0 THEN 1 ELSE a[2].v)
                         /\ \A k \in DOMAIN cart \ {a[1]} : cart'[k] = cart[k]
          /\ (resp'.op = "store_checkout_post" /\ resp'.outcome = "ok"
               /\ \E order \in Perms(DOMAIN cart) : store_checkout_post_step(order))
              => /\ Cardinality(NewItems) = Cardinality(DOMAIN cart)
                 /\ \A sku \in DOMAIN cart :
                       \E i \in NewItems :
                          /\ sale_items'[i].product_id = products[sku].id
                          /\ sale_items'[i].qty = cart[sku]
                          /\ sale_items'[i].sale_id = Last(sales').id
         ]_vars

(* a checkout of a cart of two entries has succeeded and written a         *)
(* SaleItem for each of them                                               *)
C22_Witness ==
    /\ resp.op = "store_checkout_post"
    /\ resp.outcome = "ok"
    /\ \E s \in DOMAIN sales :
          Cardinality({i \in DOMAIN sale_items : sale_items[i].sale_id = sales[s].id}) = 2

(* some cart entry is gone or smaller after the step *)
CartShrinks ==
    \E sku \in DOMAIN cart : sku \notin DOMAIN cart' \/ cart'[sku] < cart[sku]

(* C23: a checkout that fails for insufficient stock leaves the cart       *)
(* exactly as it was; the cart becomes empty (indeed, loses or reduces any *)
(* entry) only through a successful checkout or a cart clear; stock-in,    *)
(* manual sale and product upsert never change the cart.                   *)
C23_CartFrame ==
    [][/\ \A order \in Perms(DOMAIN cart) :
             (/\ resp'.op = "store_checkout_post"
              /\ resp'.outcome # "ok"
              /\ store_checkout_post_step(order))
             => cart' = cart
       /\ (cart # <<>> /\ cart' = <<>>)
             => \/ resp'.op = "store_cart_clear"
                \/ resp'.op = "store_checkout_post" /\ resp'.outcome = "ok"
       /\ CartShrinks
             => \/ resp'.op = "store_cart_clear"
                \/ resp'.op = "store_checkout_post" /\ resp'.outcome = "ok"
       /\ resp'.op \in {"stockin_add", "manual_sale", "product_upsert"}
             => cart' = cart
       /\ \A a \in StoreIn.stockin :
             stockin_add_step(a[1], a[2], a[3], a[4], a[5]) => cart' = cart
       /\ \A a \in StoreIn.manual :
             manual_sale_step(a[1], a[2], a[3]) => cart' = cart
      ]_vars

(* a checkout has failed for insufficient stock with entries in the cart *)
C23_Witness ==
    /\ resp.op = "store_checkout_post"
    /\ resp.outcome = "InsufficientStock"
    /\ cart # <<>>
    /\ \E sku \in DOMAIN cart : cart[sku] > products[sku].stock_qty
====
